---- MODULE Spec2Model ----
(***************************************************************************)
(* A model of the hybrid retrieval engine (src/src/vector_store.py):       *)
(* RetrievalEngine's fields, its build_index / save_local / load_local /   *)
(* search operations, the registration-number normaliser and the regular   *)
(* expressions of the identifier fast path.                                *)
(*                                                                         *)
(* Strings are sequences of one-character strings, so that the regular     *)
(* expressions, strip(), title() and int() are computed character by       *)
(* character.  Python's None / NaN is the value NULL.                      *)
(***************************************************************************)
EXTENDS Integers, Sequences, FiniteSets, TLC

\* ------------------------------------------------------------------ bounds
\* At most this many uploaded files are concatenated into one DataFrame.
MaxFiles == 2
\* The same, for the DataFrames of the build / save / load life cycle.
MaxLifeFiles == 1
\* An identifier query is written with at most this many leading zeros.
MaxZeros == 2

\* ------------------------------------------------------------ characters
NULL == <<"<null>">>

DigitChars == <<"0", "1", "2", "3", "4", "5", "6", "7", "8", "9">>
LowerChars == <<"a", "b", "c", "d", "e", "f", "g", "h", "i", "j", "k", "l", "m", "n", "o", "p", "q", "r", "s", "t", "u", "v", "w", "x", "y", "z">>
UpperChars == <<"A", "B", "C", "D", "E", "F", "G", "H", "I", "J", "K", "L", "M", "N", "O", "P", "Q", "R", "S", "T", "U", "V", "W", "X", "Y", "Z">>

IsDigit(c) == \E i \in 1..10 : DigitChars[i] = c
IsZero(c) == c = "0"
IsSpace(c) == c = " "
\* the character class [\s\.\-]
IsSep(c) == c \in {" ", ".", "-"}
IsLower(c) == \E i \in 1..Len(LowerChars) : LowerChars[i] = c
IsUpper(c) == \E i \in 1..Len(UpperChars) : UpperChars[i] = c
IsAlpha(c) == IsLower(c) \/ IsUpper(c)

ToLower(c) == IF IsUpper(c)
              THEN LowerChars[CHOOSE i \in 1..Len(UpperChars) : UpperChars[i] = c]
              ELSE c
ToUpper(c) == IF IsLower(c)
              THEN UpperChars[CHOOSE i \in 1..Len(LowerChars) : LowerChars[i] = c]
              ELSE c
DigitVal(c) == (CHOOSE i \in 1..10 : DigitChars[i] = c) - 1

Max(S) == CHOOSE x \in S : \A y \in S : y <= x
Min(S) == CHOOSE x \in S : \A y \in S : x <= y

\* str.lower()
Lower(s) == [i \in 1..Len(s) |-> ToLower(s[i])]

\* str.strip(): leading and trailing whitespace removed
Strip(s) ==
    LET keep == {i \in 1..Len(s) : ~IsSpace(s[i])}
    IN  IF keep = {} THEN <<>> ELSE SubSeq(s, Min(keep), Max(keep))

\* str.title(): a letter is upper-cased when it follows a non-letter (or starts
\* the string) and lower-cased otherwise
Title(s) ==
    [i \in 1..Len(s) |->
        IF i = 1 \/ ~IsAlpha(s[i - 1]) THEN ToUpper(s[i]) ELSE ToLower(s[i])]

\* int(text[a..b]) for a run of decimal digits
RECURSIVE IntOf(_, _, _)
IntOf(s, a, b) ==
    IF b < a THEN 0 ELSE 10 * IntOf(s, a, b - 1) + DigitVal(s[b])

\* str(n) for n >= 0, as in the f-string f"GSA-{digits}"
RECURSIVE StrOfInt(_)
StrOfInt(n) ==
    IF n < 10 THEN <<DigitChars[n + 1]>>
    ELSE StrOfInt(n \div 10) \o <<DigitChars[(n % 10) + 1]>>

\* ---------------------------------------------------- regular expressions
\* The number of consecutive characters of s, from position p on, that are
\* digits / zeros / separators (what a greedy \d*, 0*, [\s\.\-]* consumes).
DigitRun(s, p) ==
    Max({n \in 0..(Len(s) + 1 - p) : \A k \in 0..(n - 1) : IsDigit(s[p + k])})
ZeroRun(s, p) ==
    Max({n \in 0..(Len(s) + 1 - p) : \A k \in 0..(n - 1) : IsZero(s[p + k])})
SepRun(s, p) ==
    Max({n \in 0..(Len(s) + 1 - p) : \A k \in 0..(n - 1) : IsSep(s[p + k])})

\* "GSA" under re.IGNORECASE at position p
HasGSA(s, p) ==
    /\ p + 2 <= Len(s)
    /\ ToUpper(s[p]) = "G" /\ ToUpper(s[p + 1]) = "S" /\ ToUpper(s[p + 2]) = "A"

NoMatch == <<>>

\* (\d+) at p: the group is the whole digit run
DigitsAt(s, p) ==
    LET L == DigitRun(s, p)
    IN  IF p > Len(s) \/ L = 0 THEN NoMatch ELSE <<p, p + L - 1>>

\* 0*(\d+) at p: the greedy 0* takes every leading zero and gives one back
\* when nothing would be left for \d+
ZerosDigitsAt(s, p) ==
    LET L == DigitRun(s, p)
        z == ZeroRun(s, p)
    IN  IF p > Len(s) \/ L = 0 THEN NoMatch
        ELSE IF L > z THEN <<p + z, p + L - 1>>
        ELSE <<p + L - 1, p + L - 1>>

\* (?:GSA[\s\.\-]?0*)?(\d+) anchored at p: the optional prefix is tried first,
\* with one separator, then with none, then the prefix is skipped
NormalizeMatchAt(s, p) ==
    IF HasGSA(s, p)
    THEN LET withSep == IF p + 3 <= Len(s) /\ IsSep(s[p + 3])
                        THEN ZerosDigitsAt(s, p + 4) ELSE NoMatch
             noSep   == ZerosDigitsAt(s, p + 3)
         IN  IF withSep # NoMatch THEN withSep
             ELSE IF noSep # NoMatch THEN noSep
             ELSE DigitsAt(s, p)
    ELSE DigitsAt(s, p)

\* (?:GSA)[\s\.\-]?0*(\d+) anchored at p: a match needs the prefix.
SearchMatchAtPrefixed(s, p) ==
    IF HasGSA(s, p)
    THEN IF p + 3 <= Len(s) /\ IsSep(s[p + 3]) /\ ZerosDigitsAt(s, p + 4) # NoMatch
         THEN ZerosDigitsAt(s, p + 4)
         ELSE ZerosDigitsAt(s, p + 3)
    ELSE NoMatch

\* (?:GSA[\s\.\-]*)?0*(\d+) anchored at p: the separators are taken greedily
\* and given back one by one, then the prefix is skipped
SearchMatchAt(s, p) ==
    IF HasGSA(s, p)
    THEN LET n    == SepRun(s, p + 3)
             good == {k \in 0..n : ZerosDigitsAt(s, p + 3 + k) # NoMatch}
         IN  IF good # {} THEN ZerosDigitsAt(s, p + 3 + Max(good))
             ELSE ZerosDigitsAt(s, p)
    ELSE ZerosDigitsAt(s, p)

\* A search that takes the match at the rightmost position.
NormalizeSearchRightmost(s) ==
    LET at == {p \in 1..Len(s) : NormalizeMatchAt(s, p) # NoMatch}
    IN  IF at = {} THEN NoMatch ELSE NormalizeMatchAt(s, Max(at))

\* re.search: the match at the leftmost position that has one
NormalizeSearch(s) ==
    LET at == {p \in 1..Len(s) : NormalizeMatchAt(s, p) # NoMatch}
    IN  IF at = {} THEN NoMatch ELSE NormalizeMatchAt(s, Min(at))

QuerySearch(s) ==
    LET at == {p \in 1..Len(s) : SearchMatchAt(s, p) # NoMatch}
    IN  IF at = {} THEN NoMatch ELSE SearchMatchAt(s, Min(at))

\* ------------------------------------------------------------ normaliser
NoDigits == -1

GSADash == <<"G", "S", "A", "-">>

\* RetrievalEngine._normalize_regno: (norm, digits); some = FALSE stands for
\* digits = None (the digits field is then a placeholder)
normalize_regno(raw) ==
    IF raw = NULL \/ raw = <<>> THEN [norm |-> NULL, digits |-> 0, some |-> FALSE]
    ELSE LET s == Strip(raw)
             m == NormalizeSearch(s)
         IN  IF m # NoMatch
             THEN LET d == IntOf(s, m[1], m[2])
                  IN  [norm |-> GSADash \o StrOfInt(d), digits |-> d, some |-> TRUE]
             ELSE [norm |-> s, digits |-> 0, some |-> FALSE]

\* --------------------------------------------------------------- records
\* The default texts of build_index's clean()
DefaultName == <<"U", "n", "n", "a", "m", "e", "d", " ", "G", "a", "u", "s", "h", "a", "l", "a">>
DefaultDistrict == <<"U", "n", "k", "n", "o", "w", "n", " ", "D", "i", "s", "t", "r", "i", "c", "t">>
DefaultVillage == <<"U", "n", "k", "n", "o", "w", "n", " ", "V", "i", "l", "l", "a", "g", "e">>
DefaultStatus == <<"A", "c", "t", "i", "v", "e">>
DefaultContact == <<"t", "h", "e", " ", "m", "a", "n", "a", "g", "e", "r">>
DefaultPhone == <<"n", "o", "t", " ", "l", "i", "s", "t", "e", "d">>
NoneWord == <<"n", "o", "n", "e">>

Ambala == <<"A", "m", "b", "a", "l", "a">>
Sirsa == <<"S", "i", "r", "s", "a">>
Kot == <<"K", "o", "t">>
Active == <<"A", "c", "t", "i", "v", "e">>
Closed == <<"C", "l", "o", "s", "e", "d">>

Row(reg, name, district, village, status, count, contact, phone) ==
    [Registration_No |-> reg, Gaushala_Name |-> name, District |-> district,
     Village |-> village, Status |-> status, Cattle_Count |-> count,
     Contact_Person |-> contact, Phone_Number |-> phone]

\* Three uploaded reports, as the extraction stage leaves them (text fields
\* trimmed and title-cased, missing values null, registration numbers trimmed).
\* FileA: codes 14 and 4314 in one district.
FileA ==
    << Row(<<"G", "S", "A", "-", "0", "1", "4">>, <<"S", "h", "a", "n", "t", "i">>, Ambala, Kot, Active, 42, <<"R", "a", "m", "e", "s", "h">>, <<"9", "8", "7", "6", "5", "4", "3", "2", "1", "0">>),
       Row(<<"4", "3", "1", "4">>, <<"O", "m">>, Ambala, NULL, Active, 7, NULL, NULL) >>
\* FileB: three more writings of code 14.
FileB ==
    << Row(<<"g", "s", "a", " ", "1", "4">>, <<"S", "i", "t", "a">>, Sirsa, Kot, Active, 5, NULL, NULL),
       Row(<<"G", ".", "S", ".", "A", " ", "0", "1", "4">>, <<"N", "a", "n", "d", "i">>, Sirsa, NULL, Closed, 0, NULL, <<"9", "8", "7", "6", "5", "4", "3", "2", "1", "0">>),
       Row(<<"1", "4">>, <<"D", "u", "r", "g", "a">>, Sirsa, Kot, Active, 9, NULL, NULL) >>
\* FileC: code 0, a code without digits, an empty code.
FileC ==
    << Row(<<"G", "S", "A", "-", "0">>, <<"U", "m", "a">>, Sirsa, Kot, Closed, 0, NULL, NULL),
       Row(<<"N", "/", "A">>, NULL, NULL, NULL, NULL, 3, <<"R", "a", "m", "e", "s", "h">>, NULL),
       Row(<<>>, <<"K", "a", "l", "i">>, Ambala, Kot, Active, 1, NULL, NULL) >>

Files == {FileA, FileB, FileC}

RECURSIVE Concat(_)
Concat(fs) == IF fs = <<>> THEN <<>> ELSE Head(fs) \o Concat(Tail(fs))

\* The DataFrames handed to build_index: the concatenation (pd.concat with
\* ignore_index) of up to MaxFiles different reports; none gives the empty frame.
FileLists ==
    UNION {{fs \in [1..n -> Files] : \A i, j \in 1..n : i # j => fs[i] # fs[j]}
           : n \in 0..Min({MaxFiles, Cardinality(Files)})}
Frames == {Concat(fs) : fs \in FileLists}

\* The DataFrames of the life cycle: FileA, FileB, and FileA followed by FileB.
LifeFiles == <<FileA, FileB>>
LifeFileLists ==
    UNION {{fs \in [1..n -> 1..Len(LifeFiles)] : \A i, j \in 1..n : i < j => fs[i] < fs[j]}
           : n \in 0..Min({MaxLifeFiles, Len(LifeFiles)})}
LifeFrames == {Concat([i \in 1..Len(fs) |-> LifeFiles[fs[i]]]) : fs \in LifeFileLists}

\* A report with one row more than search re-ranks: codes 101, 102, ..., names
\* of one to seven letters, no contacts.
LargeRows == 20 + 1
NameStock == <<"K", "a", "m", "d", "h", "e", "n">>
LargeFile ==
    [i \in 1..LargeRows |->
        Row(<<"G", "S", "A", "-">> \o StrOfInt(100 + i), SubSeq(NameStock, 1, 1 + (i % 7)),
            IF i % 2 = 0 THEN Ambala ELSE Sirsa, Kot, Active, i, NULL, NULL)]
\* The large report alone, and before and after each small one.
LargeFrames == {LargeFile} \cup {LargeFile \o f : f \in Files} \cup {f \o LargeFile : f \in Files}

AllFrames == Frames \cup LifeFrames \cup LargeFrames

\* ------------------------------------------------------------ build_index
isna(val) == val = NULL

\* build_index's inner clean(val, default)
clean(val, default) ==
    IF isna(val) \/ val = <<>> \/ Lower(val) = Lower(NoneWord) THEN default
    ELSE Title(Strip(val))

\* reg_norm or reg_raw
RegDisplay(n, raw) == IF n.norm = NULL \/ n.norm = <<>> THEN raw ELSE n.norm

\* reg_digits if reg_digits else -1
RegDigitsMeta(n) == IF n.some /\ n.digits # 0 THEN n.digits ELSE NoDigits

\* A text that gets the contact sentence only when both name and phone are there.
TextContentBothNeeded(row) ==
    LET n == normalize_regno(row.Registration_No)
    IN  [name     |-> clean(row.Gaushala_Name, DefaultName),
         village  |-> clean(row.Village, DefaultVillage),
         district |-> clean(row.District, DefaultDistrict),
         status   |-> clean(row.Status, DefaultStatus),
         count    |-> row.Cattle_Count,
         reg      |-> RegDisplay(n, row.Registration_No),
         contact  |-> IF ~isna(row.Contact_Person) /\ ~isna(row.Phone_Number)
                      THEN << clean(row.Contact_Person, DefaultContact),
                              clean(row.Phone_Number, DefaultPhone) >>
                      ELSE <<>>]

\* The f-string text_content, field by field; contact is <<>> when the
\* contact sentence is not appended.
TextContent(row) ==
    LET n == normalize_regno(row.Registration_No)
    IN  [name     |-> clean(row.Gaushala_Name, DefaultName),
         village  |-> clean(row.Village, DefaultVillage),
         district |-> clean(row.District, DefaultDistrict),
         status   |-> clean(row.Status, DefaultStatus),
         count    |-> row.Cattle_Count,
         reg      |-> RegDisplay(n, row.Registration_No),
         contact  |-> IF ~isna(row.Contact_Person) \/ ~isna(row.Phone_Number)
                      THEN << clean(row.Contact_Person, DefaultContact),
                              clean(row.Phone_Number, DefaultPhone) >>
                      ELSE <<>>]

\* Document(page_content, metadata) of the row at DataFrame index `index`;
\* metadata["full_info"] is the same text as page_content
MakeDocument(index, row) ==
    [page_content |-> TextContent(row),
     row_id |-> index,
     district |-> clean(row.District, DefaultDistrict),
     registration_no_digits |-> RegDigitsMeta(normalize_regno(row.Registration_No))]

\* the loop of build_index over df.iterrows()
BuildDocuments(df) == [i \in 1..Len(df) |-> MakeDocument(i - 1, df[i])]

\* build_index's documents for every DataFrame of the model, computed once
DocumentsOf == [df \in AllFrames |-> BuildDocuments(df)]
AllTexts ==
    UNION {{DocumentsOf[df][i].page_content : i \in 1..Len(df)}
           : df \in AllFrames}

\* ---------------------------------------------------------------- queries
Zeros(n) == [i \in 1..n |-> "0"]

\* the codes asked for: those of the reports, and one that no record has
QueryCodes == {0, 14, 4314, 431}
Prefixes == {<<"G", "S", "A">>, <<"g", "s", "a">>, <<"G", "s", "a">>}

\* "GSA-D" in three letter cases with up to MaxZeros leading zeros
IdQuery(prefix, z, d) == prefix \o <<"-">> \o Zeros(z) \o StrOfInt(d)
IdQueries == {IdQuery(p, z, d) : p \in Prefixes, z \in 0..MaxZeros, d \in QueryCodes}

\* free text, with and without digits, and bare digits
TextQueries == {<<"c", "o", "n", "t", "a", "c", "t", " ", "o", "f", " ", "r", "a", "m", "e", "s", "h">>, <<"i", "s", " ", "1", "4", " ", "i", "n", " ", "s", "i", "r", "s", "a">>, <<"l", "i", "s", "t", " ", "5", " ", "i", "n", " ", "a", "m", "b", "a", "l", "a">>, <<"1", "4">>, <<"0", "0", "1", "4">>}
Queries == IdQueries \cup TextQueries
\* the queries put to the engine during the life cycle
LifeQueries == {IdQuery(<<"g", "s", "a">>, 1, 14), <<"c", "o", "n", "t", "a", "c", "t", " ", "o", "f", " ", "r", "a", "m", "e", "s", "h">>, <<"1", "4">>}

\* the queries put to an engine built from a large report
LargeQueries == TextQueries \cup {IdQuery(<<"G", "S", "A">>, 0, 14), IdQuery(<<"g", "s", "a">>, 1, 431)}

\* ------------------------------------------------- the retrieval models
\* BM25, the embedding index and the cross-encoder are libraries outside the
\* repository.  Each is a fixed deterministic function of its inputs; the
\* model gives them small integer-valued stand-ins.

\* How many different cross-encoder weight sets the engine may be run with.
NPredictors == 2
Predictors == 1..NPredictors

Chars(s) == {Lower(s)[i] : i \in 1..Len(s)} \ {" "}
TextChars(text) == Chars(text.name) \cup Chars(text.district) \cup Chars(text.reg)

\* term overlap of query and text
LexScore(query, text) == Cardinality(Chars(query) \cap TextChars(text))
LexScores == [query \in Queries |-> [text \in AllTexts |-> LexScore(query, text)]]
\* similarity in the embedding space
SemScore(query, text) == (Len(query) * Len(text.name) + text.count) % 7
\* CrossEncoder.predict for one (query, text) pair under weights m
CrossScore(m, query, text) ==
    ((m * (Len(text.name) + Len(text.reg)) + Len(query)) % 7) - 9

\* ------------------------------------------------------------------- search
BM25_K == 30
FAISS_K == 20
CANDIDATE_CAP == 20
RERANK_THRESHOLD == -5
FALLBACK_N == 2
RESULT_CAP == 5
\* A fast path that shows four hits.
EXACT_CAP_Four == 3 + 1
EXACT_CAP == 3

Take(s, n) == SubSeq(s, 1, Min({n, Len(s)}))

\* positions of s ordered by descending score; equal scores keep their order
\* (Python's stable sorted(..., reverse=True))
OrderDesc(score) ==
    LET n == Len(score)
        rank == [i \in 1..n |->
                    Cardinality({j \in 1..n : score[j] > score[i]})
                    + Cardinality({j \in 1..n : j < i /\ score[j] = score[i]}) + 1]
    IN  [r \in 1..n |-> CHOOSE i \in 1..n : rank[i] = r]

\* positions by descending score, equal scores in reverse order
\* (numpy argsort(scores)[::-1])
OrderDescRev(score) ==
    LET n == Len(score)
        rank == [i \in 1..n |->
                    Cardinality({j \in 1..n : score[j] > score[i]})
                    + Cardinality({j \in 1..n : j > i /\ score[j] = score[i]}) + 1]
    IN  [r \in 1..n |-> CHOOSE i \in 1..n : rank[i] = r]

\* self.bm25_retriever.invoke(query): the k best documents of the lexical index
BM25Invoke(docs, query) ==
    LET ord == OrderDescRev([i \in 1..Len(docs) |-> LexScores[query][docs[i].page_content]])
    IN  Take([r \in 1..Len(docs) |-> docs[ord[r]]], BM25_K)

\* self.faiss_retriever.invoke(query): the k nearest documents of the
\* semantic index
FaissInvoke(docs, query) ==
    LET ord == OrderDesc([i \in 1..Len(docs) |-> SemScore(query, docs[i].page_content)])
    IN  Take([r \in 1..Len(docs) |-> docs[ord[r]]], FAISS_K)

\* the merge loop: first occurrence of each page_content, order preserved
IsFirstOccurrence(hits, i) ==
    \A j \in 1..(i - 1) : hits[j].page_content # hits[i].page_content
RECURSIVE DedupFrom(_, _)
DedupFrom(hits, i) ==
    IF i > Len(hits) THEN <<>>
    ELSE (IF IsFirstOccurrence(hits, i) THEN <<hits[i]>> ELSE <<>>)
         \o DedupFrom(hits, i + 1)
\* A merge that keeps every hit.
NoDedup(hits) == hits
Dedup(hits) == DedupFrom(hits, 1)

\* gsa_match and target_int of search, for every query of the model: the
\* integer of the first identifier-like match, NoKey when there is none
NoKey == -1
TargetInt(query) ==
    LET gsa_match == QuerySearch(query)
    IN  IF gsa_match # NoMatch THEN IntOf(query, gsa_match[1], gsa_match[2]) ELSE NoKey
TargetInts == [query \in Queries |-> TargetInt(query)]

\* the decimal writing of an integer, and substring containment
DecStr(n) == IF n < 0 THEN <<"-">> \o StrOfInt(0 - n) ELSE StrOfInt(n)
Contains(s, sub) ==
    \E p \in 1..(Len(s) + 1 - Len(sub)) : SubSeq(s, p, p + Len(sub) - 1) = sub

\* A fast path that matches a code containing the key's digits.
MetaHitsContaining(docs, target_int) ==
    SelectSeq(docs, LAMBDA d : Contains(DecStr(d.registration_no_digits), DecStr(target_int)))

\* [d for d in self.documents if d.metadata.get("registration_no_digits") == target_int]
MetaHits(docs, target_int) ==
    SelectSeq(docs, LAMBDA d : d.registration_no_digits = target_int)

\* the readiness check of search: both indexes are set
IsReady(E) == E.vector_store.set /\ E.bm25_retriever.set

\* meta_hits of search: empty when the query has no identifier-like match
FastHits(E, query) ==
    IF TargetInts[query] # NoKey THEN MetaHits(E.documents, TargetInts[query]) ELSE <<>>

Output(kind, items, key, lex, sem, rerank) ==
    [kind |-> kind, items |-> items, key |-> key,
     lex |-> lex, sem |-> sem, rerank |-> rerank]

NoOutput == Output("none", <<>>, NoKey, FALSE, FALSE, FALSE)

\* step 2 of search: both retrievers, merged and deduplicated
FaissHits(E, query) ==
    IF E.faiss_retriever.set THEN FaissInvoke(E.faiss_retriever.docs, query) ELSE <<>>
MergedHits(E, query) ==
    Dedup(BM25Invoke(E.bm25_retriever.docs, query) \o FaissHits(E, query))

\* self.cross_encoder.predict(pairs)
Predict(m, query, candidate_docs) ==
    [i \in 1..Len(candidate_docs) |-> CrossScore(m, query, candidate_docs[i].page_content)]

\* sorted(zip(candidate_docs, scores), key=score, reverse=True)
ScoredDocs(candidate_docs, scores) ==
    LET ord == OrderDesc(scores)
    IN  [r \in 1..Len(candidate_docs) |->
            [doc |-> candidate_docs[ord[r]], score |-> scores[ord[r]]]]

PassingDocs(scored_docs) ==
    SelectSeq(scored_docs, LAMBDA e : e.score > RERANK_THRESHOLD)

\* A fallback to the last candidates.
FinalResultsFromEnd(candidate_docs, passing) ==
    IF passing # <<>>
    THEN [i \in 1..Len(passing) |-> passing[i].doc]
    ELSE SubSeq(candidate_docs, Max({1, Len(candidate_docs) - FALLBACK_N + 1}),
                Len(candidate_docs))

\* A selection without fallback.
FinalResultsNoFallback(candidate_docs, passing) ==
    [i \in 1..Len(passing) |-> passing[i].doc]

\* final_results: the documents above the threshold, else the first
\* candidates
FinalResults(candidate_docs, passing) ==
    IF passing # <<>>
    THEN [i \in 1..Len(passing) |-> passing[i].doc]
    ELSE Take(candidate_docs, FALLBACK_N)

PageContents(docs) == [i \in 1..Len(docs) |-> docs[i].page_content]

\* step 3 of search, on the candidates cut to CANDIDATE_CAP
Rerank(m, query, candidate_docs) ==
    Take(FinalResults(candidate_docs,
                      PassingDocs(ScoredDocs(candidate_docs,
                                             Predict(m, query, candidate_docs)))),
         RESULT_CAP)

HybridOutput(E, query, key, merged) ==
    IF merged = <<>>
    THEN Output("noinfo", <<>>, key, TRUE, E.faiss_retriever.set, FALSE)
    ELSE Output("results",
                PageContents(Rerank(E.cross_encoder, query, Take(merged, CANDIDATE_CAP))),
                key, TRUE, E.faiss_retriever.set, TRUE)

\* steps 2 and 3 of search: hybrid retrieval, merge, re-ranking, selection
HybridSearch(E, query, key) == HybridOutput(E, query, key, MergedHits(E, query))

\* A search that answers "No info found." when the query names a code that no
\* document has.
SearchOutputIdOnly(E, query) ==
    IF ~IsReady(E)
    THEN Output("notready", <<>>, NoKey, FALSE, FALSE, FALSE)
    ELSE IF FastHits(E, query) # <<>>
    THEN Output("exact", PageContents(Take(FastHits(E, query), EXACT_CAP)),
                TargetInts[query], FALSE, FALSE, FALSE)
    ELSE IF TargetInts[query] # NoKey
    THEN Output("noinfo", <<>>, TargetInts[query], FALSE, FALSE, FALSE)
    ELSE HybridSearch(E, query, TargetInts[query])

\* RetrievalEngine.search.  The output records the kind of answer ("notready":
\* "Error: Index not initialized.", "exact": the EXACT METADATA MATCH blocks,
\* "noinfo": "No info found.", "results": the [Result i] blocks), the texts of
\* its blocks in order, the fast-path key, and which models were called.
SearchOutput(E, query) ==
    IF ~IsReady(E)
    THEN Output("notready", <<>>, NoKey, FALSE, FALSE, FALSE)
    ELSE IF FastHits(E, query) # <<>>
    THEN Output("exact", PageContents(Take(FastHits(E, query), EXACT_CAP)),
                TargetInts[query], FALSE, FALSE, FALSE)
    ELSE HybridSearch(E, query, TargetInts[query])

\* -------------------------------------------------------------------- state
VARIABLES
    documents,        \* self.documents
    vector_store,     \* self.vector_store: the FAISS index, or None
    bm25_retriever,   \* self.bm25_retriever: the BM25 index, or None
    faiss_retriever,  \* self.faiss_retriever: a retriever over one FAISS index, or None
    cross_encoder,    \* self.cross_encoder: the weights the process loaded
    folder,           \* the index directory on disk: the FAISS files and documents.pkl
    last,             \* the last call (or outside event) and whether it raised
    out,              \* what the last search returned
    origin,           \* how the engine came to its state (history)
    saved,            \* the engine that wrote the bundle, when it was freshly built (history)
    calls,            \* the search calls in progress, one per thread: position and locals
    artifacts,        \* the artifact store on disk: metadata.json, the parquet and PDF files
    returned,         \* what the last call of a function or of the ingestion manager returned
    session           \* st.session_state: df and agent_manager

vars == <<documents, vector_store, bm25_retriever, faiss_retriever, cross_encoder,
          folder, last, out, origin, saved, calls, artifacts, returned, session>>

Range(s) == {s[i] : i \in 1..Len(s)}

\* An index object holds the documents it was made from.
None == [set |-> FALSE, docs |-> <<>>]
IndexOf(docs) == [set |-> TRUE, docs |-> docs]

\* A file of the bundle: absent, unreadable, or holding documents.
NoFile == [present |-> FALSE, ok |-> FALSE, docs |-> <<>>]
FileOf(docs) == [present |-> TRUE, ok |-> TRUE, docs |-> docs]
BadFile == [present |-> TRUE, ok |-> FALSE, docs |-> <<>>]

Engine(docs, vs, bm25, fr, ce) ==
    [documents |-> docs, vector_store |-> vs, bm25_retriever |-> bm25,
     faiss_retriever |-> fr, cross_encoder |-> ce]
Self == Engine(documents, vector_store, bm25_retriever, faiss_retriever, cross_encoder)

NoEngine == Engine(<<>>, None, None, None, 0)

\* arg: the DataFrame of a build, the query of a search
Call(op, raised, arg) == [op |-> op, raised |-> raised, arg |-> arg]

\* The threads that call search on the one engine: the agent's tool node runs
\* the search_knowledge_base calls of one model message on a thread pool.
NThreads == 2
Threads == 1..NThreads

\* A search call: where it stands, its query, and its local variables
\* bm25_hits and faiss_hits; result is what it returns.
CallAt(pc, query, bm25_hits, faiss_hits, result) ==
    [pc |-> pc, query |-> query, bm25_hits |-> bm25_hits,
     faiss_hits |-> faiss_hits, result |-> result]
Idle == CallAt("idle", <<>>, <<>>, <<>>, NoOutput)

\* IngestionManager.__init__ on a new installation: an empty metadata.json, no
\* parquet or PDF file.  metadata lists the file hashes in insertion order.
EmptyStore == [metadata |-> <<>>, parquet |-> {}, pdf |-> {}]
\* nothing returned yet
NoReturn == [value |-> <<>>]
\* the session state before any upload: df and agent_manager are None
NoSession == [df |-> NULL, agent_manager |-> FALSE]

\* RetrievalEngine.__init__ with load_models_now=True, as every caller has it
Init ==
    /\ documents = <<>>
    /\ vector_store = None
    /\ bm25_retriever = None
    /\ faiss_retriever = None
    /\ cross_encoder \in Predictors
    /\ folder = [faiss |-> NoFile, docs |-> NoFile]
    /\ last = Call("init", FALSE, <<>>)
    /\ out = NoOutput
    /\ origin = "fresh"
    /\ saved = [clean |-> FALSE, engine |-> NoEngine]
    /\ calls = [t \in Threads |-> Idle]
    /\ artifacts = EmptyStore
    /\ returned = NoReturn
    /\ session = NoSession

\* A new RetrievalEngine replaces the old one; the disk is kept.
NewEngine ==
    /\ documents' = <<>>
    /\ vector_store' = None
    /\ bm25_retriever' = None
    /\ faiss_retriever' = None
    /\ last' = Call("init", FALSE, <<>>)
    /\ out' = NoOutput
    /\ origin' = "fresh"
    /\ UNCHANGED <<cross_encoder, folder, saved, calls,
                   artifacts, returned, session>>

\* A refresh that leaves the retriever as it is.
RetrieverKept(vs, fr) == fr

\* _refresh_retrievers: the retriever is renewed only when a FAISS index is set
RefreshedRetriever(vs, fr) == IF vs.set THEN vs ELSE fr

\* Where a build may raise: nowhere, in FAISS.from_documents (the embedding
\* call), or in BM25Retriever.from_documents.
BuildFaults == {"none", "faiss", "bm25"}

\* build_index(df)
BuildIndex(df, fault) ==
    LET docs == DocumentsOf[df]
    IN  /\ documents' = docs
        /\ IF docs = <<>>
           THEN \* "No documents to index!": a plain return
                /\ UNCHANGED <<vector_store, bm25_retriever, faiss_retriever>>
                /\ last' = Call("build", FALSE, df)
                /\ origin' = "other"
           ELSE IF fault = "faiss"
           THEN /\ UNCHANGED <<vector_store, bm25_retriever, faiss_retriever>>
                /\ last' = Call("build", TRUE, df)
                /\ origin' = "other"
           ELSE IF fault = "bm25"
           THEN /\ vector_store' = IndexOf(docs)
                /\ UNCHANGED <<bm25_retriever, faiss_retriever>>
                /\ last' = Call("build", TRUE, df)
                /\ origin' = "other"
           ELSE /\ vector_store' = IndexOf(docs)
                /\ bm25_retriever' = IndexOf(docs)
                /\ faiss_retriever' = RefreshedRetriever(IndexOf(docs), faiss_retriever)
                /\ last' = Call("build", FALSE, df)
                /\ origin' = "built"
        /\ out' = NoOutput
        /\ UNCHANGED <<cross_encoder, folder, saved, calls,
                   artifacts, returned, session>>

\* save_local(folder_path)
SaveLocal ==
    /\ folder' = [faiss |-> IF vector_store.set THEN FileOf(vector_store.docs)
                            ELSE folder.faiss,
                  docs  |-> FileOf(documents)]
    /\ saved' = IF origin = "built"
                THEN [clean |-> TRUE, engine |-> Self]
                ELSE [clean |-> FALSE, engine |-> NoEngine]
    /\ last' = Call("save", FALSE, <<>>)
    /\ out' = NoOutput
    /\ UNCHANGED <<documents, vector_store, bm25_retriever, faiss_retriever,
                   cross_encoder, origin, calls,
                   artifacts, returned, session>>

\* A load that rebuilds both indexes but leaves self.documents as it was.
LoadLocalKeepingDocuments ==
    /\ folder.faiss.present /\ folder.faiss.ok /\ folder.docs.present /\ folder.docs.ok
    /\ folder.docs.docs # <<>>
    /\ vector_store' = IndexOf(folder.faiss.docs)
    /\ bm25_retriever' = IndexOf(folder.docs.docs)
    /\ faiss_retriever' = RefreshedRetriever(vector_store', faiss_retriever)
    /\ last' = Call("load", FALSE, <<>>)
    /\ origin' = IF origin = "fresh" THEN "loaded" ELSE "other"
    /\ out' = NoOutput
    /\ UNCHANGED <<documents, cross_encoder, folder, saved, calls,
                   artifacts, returned, session>>

\* load_local(folder_path).  BM25Retriever.from_documents raises on an empty
\* list (it unpacks zip(*...) of the documents into texts and metadatas).
LoadLocal ==
    /\ IF ~(folder.faiss.present /\ folder.faiss.ok)
       THEN \* FAISS.load_local raises before anything is assigned
            /\ UNCHANGED <<documents, vector_store, bm25_retriever, faiss_retriever>>
            /\ last' = Call("load", TRUE, <<>>)
            /\ origin' = "other"
       ELSE /\ vector_store' = IndexOf(folder.faiss.docs)
            /\ IF ~folder.docs.present
               THEN \* "Documents file not found, BM25 will be empty."
                    /\ UNCHANGED <<documents, bm25_retriever>>
                    /\ faiss_retriever' = RefreshedRetriever(vector_store', faiss_retriever)
                    /\ last' = Call("load", FALSE, <<>>)
                    /\ origin' = "other"
               ELSE IF ~folder.docs.ok
               THEN \* pickle.load raises
                    /\ UNCHANGED <<documents, bm25_retriever, faiss_retriever>>
                    /\ last' = Call("load", TRUE, <<>>)
                    /\ origin' = "other"
               ELSE /\ documents' = folder.docs.docs
                    /\ IF folder.docs.docs = <<>>
                       THEN /\ UNCHANGED <<bm25_retriever, faiss_retriever>>
                            /\ last' = Call("load", TRUE, <<>>)
                            /\ origin' = "other"
                       ELSE /\ bm25_retriever' = IndexOf(folder.docs.docs)
                            /\ faiss_retriever' =
                                   RefreshedRetriever(vector_store', faiss_retriever)
                            /\ last' = Call("load", FALSE, <<>>)
                            /\ origin' = IF origin = "fresh" THEN "loaded" ELSE "other"
    /\ out' = NoOutput
    /\ UNCHANGED <<cross_encoder, folder, saved, calls,
                   artifacts, returned, session>>

\* search(query)
Search(query) ==
    /\ out' = SearchOutput(Self, query)
    /\ last' = Call("search", FALSE, query)
    /\ UNCHANGED <<documents, vector_store, bm25_retriever, faiss_retriever,
                   cross_encoder, folder, origin, saved, calls,
                   artifacts, returned, session>>

\* search(query) on thread t, one action for each stretch of the method between
\* two reads of the engine's fields (other threads may run in between).
\* Lines 168-169: the readiness check.
SearchBegin(t, query) ==
    /\ calls[t].pc = "idle"
    /\ calls' = [calls EXCEPT ![t] =
           IF ~IsReady(Self)
           THEN CallAt("done", query, <<>>, <<>>,
                       Output("notready", <<>>, NoKey, FALSE, FALSE, FALSE))
           ELSE CallAt("fast", query, <<>>, <<>>, NoOutput)]
    /\ UNCHANGED <<documents, vector_store, bm25_retriever, faiss_retriever,
                   cross_encoder, folder, last, out, origin, saved,
                   artifacts, returned, session>>

\* A fast path that filters self.documents in place.
SearchFastPathInPlace(t) ==
    /\ calls[t].pc = "fast"
    /\ documents' = IF TargetInts[calls[t].query] # NoKey
                     THEN FastHits(Self, calls[t].query) ELSE documents
    /\ calls' = [calls EXCEPT ![t] =
           IF FastHits(Self, @.query) # <<>>
           THEN CallAt("done", @.query, <<>>, <<>>,
                       Output("exact", PageContents(Take(FastHits(Self, @.query), EXACT_CAP)),
                              TargetInts[@.query], FALSE, FALSE, FALSE))
           ELSE CallAt("bm25", @.query, <<>>, <<>>, NoOutput)]
    /\ UNCHANGED <<vector_store, bm25_retriever, faiss_retriever,
                   cross_encoder, folder, last, out, origin, saved,
                   artifacts, returned, session>>

\* Lines 173-181: the identifier match and the filter over self.documents.
SearchFastPath(t) ==
    /\ calls[t].pc = "fast"
    /\ calls' = [calls EXCEPT ![t] =
           IF FastHits(Self, @.query) # <<>>
           THEN CallAt("done", @.query, <<>>, <<>>,
                       Output("exact", PageContents(Take(FastHits(Self, @.query), EXACT_CAP)),
                              TargetInts[@.query], FALSE, FALSE, FALSE))
           ELSE CallAt("bm25", @.query, <<>>, <<>>, NoOutput)]
    /\ UNCHANGED <<documents, vector_store, bm25_retriever, faiss_retriever,
                   cross_encoder, folder, last, out, origin, saved,
                   artifacts, returned, session>>

\* Line 185: bm25_hits
SearchBM25(t) ==
    /\ calls[t].pc = "bm25"
    /\ calls' = [calls EXCEPT ![t] =
           CallAt("faiss", @.query, BM25Invoke(bm25_retriever.docs, @.query), <<>>, NoOutput)]
    /\ UNCHANGED <<documents, vector_store, bm25_retriever, faiss_retriever,
                   cross_encoder, folder, last, out, origin, saved,
                   artifacts, returned, session>>

\* Lines 187-189: faiss_hits
SearchFaiss(t) ==
    /\ calls[t].pc = "faiss"
    /\ calls' = [calls EXCEPT ![t] =
           CallAt("rerank", @.query, @.bm25_hits, FaissHits(Self, @.query), NoOutput)]
    /\ UNCHANGED <<documents, vector_store, bm25_retriever, faiss_retriever,
                   cross_encoder, folder, last, out, origin, saved,
                   artifacts, returned, session>>

\* Lines 192-220: merge, cut, re-rank, select, format
SearchRerank(t) ==
    /\ calls[t].pc = "rerank"
    /\ calls' = [calls EXCEPT ![t] =
           CallAt("done", @.query, @.bm25_hits, @.faiss_hits,
                  HybridOutput(Self, @.query, TargetInts[@.query],
                               Dedup(@.bm25_hits \o @.faiss_hits)))]
    /\ UNCHANGED <<documents, vector_store, bm25_retriever, faiss_retriever,
                   cross_encoder, folder, last, out, origin, saved,
                   artifacts, returned, session>>

\* the call returns its string to the caller
SearchReturn(t) ==
    /\ calls[t].pc = "done"
    /\ out' = calls[t].result
    /\ last' = Call("search", FALSE, calls[t].query)
    /\ calls' = [calls EXCEPT ![t] = Idle]
    /\ UNCHANGED <<documents, vector_store, bm25_retriever, faiss_retriever,
                   cross_encoder, folder, origin, saved,
                   artifacts, returned, session>>

\* Outside the engine: a file of the bundle is lost or damaged.
Damages == {"no documents", "bad documents", "no faiss", "bad faiss"}
DamageBundle(what) ==
    /\ folder.faiss.present \/ folder.docs.present
    /\ folder' = CASE what = "no documents"  -> [folder EXCEPT !.docs = NoFile]
                   [] what = "bad documents" -> [folder EXCEPT !.docs =
                                                    IF @.present THEN BadFile ELSE @]
                   [] what = "no faiss"      -> [folder EXCEPT !.faiss = NoFile]
                   [] what = "bad faiss"     -> [folder EXCEPT !.faiss =
                                                    IF @.present THEN BadFile ELSE @]
    /\ folder' # folder
    /\ saved' = [clean |-> FALSE, engine |-> NoEngine]
    /\ last' = Call("damage", FALSE, <<>>)
    /\ out' = NoOutput
    /\ UNCHANGED <<documents, vector_store, bm25_retriever, faiss_retriever,
                   cross_encoder, origin, calls,
                   artifacts, returned, session>>

Next ==
    \/ NewEngine
    \/ \E df \in LifeFrames, fault \in BuildFaults : BuildIndex(df, fault)
    \/ SaveLocal
    \/ LoadLocal
    \/ \E query \in LifeQueries : Search(query)
    \/ \E what \in Damages : DamageBundle(what)

Spec == Init /\ [][Next]_vars

\* The engine built (and rebuilt) without faults from every DataFrame and
\* asked every query: the specification of the claims about build_index and
\* search alone.
NextSearch ==
    \/ \E df \in Frames : BuildIndex(df, "none")
    \/ \E query \in Queries : Search(query)

SpecSearch == Init /\ [][NextSearch]_vars

\* The engine built from reports with more rows than search re-ranks.
NextLarge ==
    \/ \E df \in LargeFrames : BuildIndex(df, "none")
    \/ \E query \in LargeQueries : Search(query)

SpecLarge == Init /\ [][NextLarge]_vars

\* ------------------------------------------------------ ingestion manager
\* The PDFs a user may upload, named by their content hash, and the DataFrame
\* parse_gaushala_pdf extracts from each: "e" is a PDF without table rows.
UploadIds == {"a", "b", "e"}
ParsedPdf == [h \in UploadIds |-> CASE h = "a" -> FileA [] h = "b" -> FileB [] OTHER -> <<>>]

\* load_global_data: the parquet files of the registered hashes, in the
\* registry's order, concatenated
RECURSIVE GlobalDataFrom(_, _)
GlobalDataFrom(store, i) ==
    IF i > Len(store.metadata) THEN <<>>
    ELSE (IF store.metadata[i] \in store.parquet THEN ParsedPdf[store.metadata[i]] ELSE <<>>)
         \o GlobalDataFrom(store, i + 1)
load_global_data(store) == GlobalDataFrom(store, 1)

\* What a call leaves behind: a value or an exception.
Returned(value) == [value |-> value]
\* process_upload returns the bool True
UploadReturn == [type |-> "bool", pair |-> <<>>]
\* a (DataFrame, engine) tuple, and the tuple (None, None)
Pair(df, engine) == [type |-> "tuple", some |-> TRUE, df |-> df, engine |-> engine]
NonePair == [type |-> "tuple", some |-> FALSE, df |-> <<>>, engine |-> NoEngine]

\* the engine's fields take the values of the engine object E
SetEngine(E) ==
    /\ documents' = E.documents
    /\ vector_store' = E.vector_store
    /\ bm25_retriever' = E.bm25_retriever
    /\ faiss_retriever' = E.faiss_retriever

\* A process_upload that writes the files before it looks at the rows.
ProcessUploadSavingFirst(h) ==
    /\ artifacts' = [metadata |-> IF ParsedPdf[h] = <<>> \/ h \in Range(artifacts.metadata)
                                  THEN artifacts.metadata ELSE Append(artifacts.metadata, h),
                     parquet  |-> artifacts.parquet \cup {h},
                     pdf      |-> artifacts.pdf \cup {h}]
    /\ last' = Call("upload", ParsedPdf[h] = <<>>, h)
    /\ returned' = IF ParsedPdf[h] = <<>> THEN NoReturn ELSE Returned(UploadReturn)
    /\ UNCHANGED <<documents, vector_store, bm25_retriever, faiss_retriever, cross_encoder,
                   folder, out, origin, saved, calls, session>>

\* IngestionManager.process_upload(file_bytes, file_name)
ProcessUpload(h) ==
    /\ IF ParsedPdf[h] = <<>>
       THEN \* "Could not extract data from PDF."
            /\ last' = Call("upload", TRUE, h)
            /\ returned' = NoReturn
            /\ UNCHANGED artifacts
       ELSE /\ artifacts' = [metadata |-> IF h \in Range(artifacts.metadata)
                                         THEN artifacts.metadata
                                         ELSE Append(artifacts.metadata, h),
                            parquet  |-> artifacts.parquet \cup {h},
                            pdf      |-> artifacts.pdf \cup {h}]
            /\ last' = Call("upload", FALSE, h)
            /\ returned' = Returned(UploadReturn)
    /\ UNCHANGED <<documents, vector_store, bm25_retriever, faiss_retriever, cross_encoder,
                   folder, out, origin, saved, calls, session>>

\* IngestionManager.delete_artifact(file_hash)
DeleteArtifact(h) ==
    /\ IF h \in Range(artifacts.metadata)
       THEN /\ artifacts' = [metadata |-> SelectSeq(artifacts.metadata, LAMBDA x : x # h),
                            parquet  |-> artifacts.parquet \ {h},
                            pdf      |-> artifacts.pdf \ {h}]
            /\ returned' = Returned(TRUE)
       ELSE /\ UNCHANGED artifacts
            /\ returned' = Returned(FALSE)
    /\ last' = Call("delete", FALSE, h)
    /\ UNCHANGED <<documents, vector_store, bm25_retriever, faiss_retriever, cross_encoder,
                   folder, out, origin, saved, calls, session>>

\* A new engine after build_index(df) on a non-empty df: the engine object and
\* whether the build raised
BuiltEngine(df, fault, ce) ==
    LET docs == DocumentsOf[df]
    IN  IF fault = "faiss"
        THEN [raised |-> TRUE, engine |-> Engine(docs, None, None, None, ce)]
        ELSE IF fault = "bm25"
        THEN [raised |-> TRUE, engine |-> Engine(docs, IndexOf(docs), None, None, ce)]
        ELSE [raised |-> FALSE,
              engine |-> Engine(docs, IndexOf(docs), IndexOf(docs),
                                RefreshedRetriever(IndexOf(docs), None), ce)]

\* A new engine after load_local(f): the engine object and whether the load
\* raised
LoadedEngine(f, ce) ==
    IF ~(f.faiss.present /\ f.faiss.ok)
    THEN [raised |-> TRUE, engine |-> Engine(<<>>, None, None, None, ce)]
    ELSE IF ~f.docs.present
    THEN \* "Documents file not found, BM25 will be empty."
         [raised |-> FALSE,
          engine |-> Engine(<<>>, IndexOf(f.faiss.docs), None,
                            RefreshedRetriever(IndexOf(f.faiss.docs), None), ce)]
    ELSE IF ~f.docs.ok
    THEN [raised |-> TRUE, engine |-> Engine(<<>>, IndexOf(f.faiss.docs), None, None, ce)]
    ELSE IF f.docs.docs = <<>>
    THEN [raised |-> TRUE, engine |-> Engine(<<>>, IndexOf(f.faiss.docs), None, None, ce)]
    ELSE [raised |-> FALSE,
          engine |-> Engine(f.docs.docs, IndexOf(f.faiss.docs), IndexOf(f.docs.docs),
                            RefreshedRetriever(IndexOf(f.faiss.docs), None), ce)]

\* IngestionManager.rebuild_global_index(): a new engine is built from all
\* registered reports and saved to the global index directory
RebuildGlobalIndex(fault) ==
    IF load_global_data(artifacts) = <<>>
    THEN \* "No data available to build index."
         /\ last' = Call("rebuild", TRUE, <<>>)
         /\ returned' = NoReturn
         /\ UNCHANGED <<documents, vector_store, bm25_retriever, faiss_retriever,
                        cross_encoder, folder, out, origin, saved, calls,
                        artifacts, session>>
    ELSE /\ \E built \in {BuiltEngine(load_global_data(artifacts), fault, cross_encoder)} :
              /\ SetEngine(built.engine)
              /\ last' = Call("rebuild", built.raised, <<>>)
              /\ IF built.raised
                 THEN /\ returned' = NoReturn
                      /\ origin' = "other"
                      /\ UNCHANGED <<folder, saved>>
                 ELSE /\ returned' = Returned(Pair(load_global_data(artifacts), built.engine))
                      /\ origin' = "built"
                      /\ folder' = [faiss |-> FileOf(built.engine.vector_store.docs),
                                    docs  |-> FileOf(built.engine.documents)]
                      /\ saved' = [clean |-> TRUE, engine |-> built.engine]
         /\ out' = NoOutput
         /\ UNCHANGED <<cross_encoder, calls, artifacts, session>>

\* IngestionManager.load_global_index(): (None, None) without data, without
\* the index directory or when load_local raises, else (global_df, engine)
LoadGlobalIndex ==
    LET global_df == load_global_data(artifacts)
        loaded    == LoadedEngine(folder, cross_encoder)
    IN  IF global_df = <<>> \/ ~(folder.faiss.present \/ folder.docs.present)
        THEN /\ last' = Call("load_global", FALSE, <<>>)
             /\ returned' = Returned(NonePair)
             /\ UNCHANGED <<documents, vector_store, bm25_retriever, faiss_retriever,
                            cross_encoder, folder, out, origin, saved, calls,
                            artifacts, session>>
        ELSE /\ SetEngine(loaded.engine)
             /\ last' = Call("load_global", FALSE, <<>>)
             /\ returned' = IF loaded.raised THEN Returned(NonePair)
                             ELSE Returned(Pair(global_df, loaded.engine))
             /\ origin' = IF loaded.raised \/ ~folder.docs.present THEN "other" ELSE "loaded"
             /\ out' = NoOutput
             /\ UNCHANGED <<cross_encoder, folder, saved, calls, artifacts, session>>

\* app.initialize_system(file_bytes, file_name, api_key): the value of
\* process_upload is unpacked into (df, retrieval_engine); unpacking a bool
\* raises TypeError, and every exception is turned into (False, message)
InitializeSystem(h) ==
    LET uploaded == ParsedPdf[h] # <<>>
        ret      == UploadReturn
    IN  /\ artifacts' = IF uploaded
                        THEN [metadata |-> IF h \in Range(artifacts.metadata)
                                           THEN artifacts.metadata
                                           ELSE Append(artifacts.metadata, h),
                              parquet  |-> artifacts.parquet \cup {h},
                              pdf      |-> artifacts.pdf \cup {h}]
                        ELSE artifacts
        /\ IF uploaded /\ ret.type = "tuple"
           THEN /\ session' = [df |-> ret.pair[1], agent_manager |-> TRUE]
                /\ returned' = Returned([success |-> TRUE])
           ELSE /\ UNCHANGED session
                /\ returned' = Returned([success |-> FALSE])
        /\ last' = Call("initialize", FALSE, h)
        /\ UNCHANGED <<documents, vector_store, bm25_retriever, faiss_retriever,
                       cross_encoder, folder, out, origin, saved, calls>>

\* The artifact store and the global index under uploads, deletions, rebuilds,
\* loads and damage to the index directory.
NextIngestion ==
    \/ \E h \in UploadIds : ProcessUpload(h)
    \/ \E h \in UploadIds : DeleteArtifact(h)
    \/ \E fault \in BuildFaults : RebuildGlobalIndex(fault)
    \/ LoadGlobalIndex
    \/ \E what \in Damages : DamageBundle(what)
    \/ \E h \in UploadIds : InitializeSystem(h)

SpecIngestion == Init /\ [][NextIngestion]_vars

\* The raw registration codes given to the normaliser: a prefix, up to MaxZeros
\* zeros, digits or none, a suffix.
CodePrefixes == {<<>>, <<"G", "S", "A">>, <<"g", "s", "a", "-">>, <<"G", ".", "S", ".", "A", " ">>,
                 <<" ">>, <<"(", "x", ")", " ">>, <<"G", "S", "A", ".", "-">>}
CodeDigits == {<<>>, <<"0">>, <<"1", "4">>, <<"4", "3", "1", "4">>}
CodeSuffixes == {<<>>, <<" ", "7">>, <<" ">>, <<"-", "x">>}
RawCodes ==
    {p \o Zeros(z) \o d \o x :
        p \in CodePrefixes, z \in 0..MaxZeros, d \in CodeDigits, x \in CodeSuffixes}

\* _normalize_regno(raw), called on its own
NormalizeRegno(raw) ==
    /\ returned' = [value |-> normalize_regno(raw)]
    /\ last' = Call("normalize", FALSE, raw)
    /\ UNCHANGED <<documents, vector_store, bm25_retriever, faiss_retriever, cross_encoder,
                   folder, out, origin, saved, calls, artifacts, session>>

\* The placeholder texts that enforce_data_types replaces by None after
\* title-casing.
Replaced == {<<"N", "o", "t", " ", "A", "v", "a", "i", "l", "a", "b", "l", "e">>,
             <<"n", "o", "t", " ", "a", "v", "a", "i", "l", "a", "b", "l", "e">>,
             <<"U", "n", "k", "n", "o", "w", "n">>, <<"n", "a", "n">>}

\* The lambda of enforce_data_types on one cell, then Series.replace(..., None).
CleanCell(x) ==
    IF x # NULL /\ Lower(x) # <<"n", "a", "n">> /\ x # <<>> THEN Title(Strip(x)) ELSE NULL
EnforceText(x) ==
    IF CleanCell(x) \in Replaced THEN NULL ELSE CleanCell(x)

\* The cells given to the cleaning: a word in some letter case, bare or with
\* whitespace before or after it, and a missing cell.
Words == {<<"n", "a", "n">>, <<"N", "a", "N">>, <<"u", "n", "k", "n", "o", "w", "n">>,
          <<"U", "N", "K", "N", "O", "W", "N">>,
          <<"n", "o", "t", " ", "a", "v", "a", "i", "l", "a", "b", "l", "e">>,
          <<"N", "o", "t", " ", "A", "v", "a", "i", "l", "a", "b", "l", "e">>,
          <<>>, <<"o", "m", " ", "s", "h", "a", "n", "t", "i">>, <<"K", "O", "T">>,
          <<"n", "/", "a">>, <<"n", "o", "n", "e">>}
Pads == {<<>>, <<" ">>}
RawCells == {a \o w \o b : a \in Pads, w \in Words, b \in Pads} \cup {NULL}

\* enforce_data_types on a text column holding the cell x
EnforceDataTypes(x) ==
    /\ returned' = [value |-> EnforceText(x)]
    /\ last' = Call("clean", FALSE, x)
    /\ UNCHANGED <<documents, vector_store, bm25_retriever, faiss_retriever, cross_encoder,
                   folder, out, origin, saved, calls, artifacts, session>>

\* The normaliser and the field cleaning applied to every input of the model.
NextFunctions ==
    \/ \E raw \in RawCodes : NormalizeRegno(raw)
    \/ \E x \in RawCells : EnforceDataTypes(x)

SpecFunctions == Init /\ [][NextFunctions]_vars

\* Searches running at once on an engine that is built only while no search
\* is in progress.
NextConcurrent ==
    \/ /\ \A t \in Threads : calls[t].pc = "idle"
       /\ \E df \in LifeFrames : BuildIndex(df, "none")
    \/ \E t \in Threads, query \in LifeQueries : SearchBegin(t, query)
    \/ \E t \in Threads : SearchFastPath(t)
    \/ \E t \in Threads : SearchBM25(t)
    \/ \E t \in Threads : SearchFaiss(t)
    \/ \E t \in Threads : SearchRerank(t)
    \/ \E t \in Threads : SearchReturn(t)

SpecConcurrent == Init /\ [][NextConcurrent]_vars

\* ===================================================================
\* Properties
\* ===================================================================
Ready == IsReady(Self)

\* the integer value of the first run of digits of a raw registration code
HasDigit(raw) == \E i \in 1..Len(raw) : IsDigit(raw[i])
FirstDigitsValue(raw) ==
    LET p == Min({i \in 1..Len(raw) : IsDigit(raw[i])})
    IN  IntOf(raw, p, p + DigitRun(raw, p) - 1)

\* the positions of the documents whose metadata code is k, and the n-th of them
CodePositions(k) == {i \in 1..Len(documents) : documents[i].registration_no_digits = k}
NthOf(S, n) == CHOOSE i \in S : Cardinality({j \in S : j < i}) = n - 1

\* C1: after a successful build, for every record whose registration code has
\* digits of value D, the search of "GSA-D" (any letter case, any leading
\* zeros) answers through the fast path with that record's text among the
\* exact matches, and calls neither the lexical nor the semantic index.
C1_FastPathFindsEveryCode ==
    (last.op = "search" /\ origin = "built") =>
        \A df \in Frames :
            documents = DocumentsOf[df] =>
                \A i \in 1..Len(df) :
                    (/\ HasDigit(df[i].Registration_No)
                     /\ \E p \in Prefixes, z \in 0..MaxZeros :
                            last.arg = IdQuery(p, z, FirstDigitsValue(df[i].Registration_No)))
                    => /\ out.kind = "exact"
                       /\ ~out.lex /\ ~out.sem
                       /\ documents[i].page_content \in Range(out.items)

\* C2: when search answers through the fast path with key K, every text of
\* the answer is the text of a document of the collection, and every document
\* with that text has metadata code exactly K; K is never the sentinel.
C2_FastPathOnlyExactCode ==
    out.kind = "exact" =>
        /\ out.key # NoDigits
        /\ out.items # <<>>
        /\ \A k \in 1..Len(out.items) :
               /\ \E i \in 1..Len(documents) : documents[i].page_content = out.items[k]
               /\ \A i \in 1..Len(documents) :
                      documents[i].page_content = out.items[k]
                      => documents[i].registration_no_digits = out.key

\* a fast-path answer for key 14 from a collection that also holds code 4314
C2_Witness ==
    /\ out.kind = "exact" /\ out.key = 14
    /\ last.op = "search" /\ last.arg = <<"1", "4">>
    /\ CodePositions(4314) # {}

C4_EmptyBuildFails ==
    (last.op = "build" /\ DocumentsOf[last.arg] = <<>>) => (last.raised /\ ~Ready)

\* C5: an engine that passes search's readiness check has a non-empty
\* text-unit collection.
C5_ReadyHasDocuments == Ready => documents # <<>>

\* C6: after a build or load that raised, the engine is not Ready.
C6_FailureLeavesUninitialized ==
    (last.op \in {"build", "load"} /\ last.raised) => ~Ready

\* C7: in a Ready engine the lexical index, the semantic index (the one set
\* and the one the retriever queries) and the document list hold the same
\* text units.
C7_IndexesShareCollection ==
    Ready =>
        /\ Range(bm25_retriever.docs) = Range(documents)
        /\ Range(vector_store.docs) = Range(documents)
        /\ faiss_retriever.set
        /\ Range(faiss_retriever.docs) = Range(documents)

\* C8: a load from a bundle with a missing or unreadable artifact raises.
C8_LoadFailsOnMissingArtifact ==
    (/\ last.op = "load"
     /\ \/ ~folder.faiss.present \/ ~folder.faiss.ok
        \/ ~folder.docs.present \/ ~folder.docs.ok)
    => last.raised

\* C9: a load from a bundle whose semantic-index file and documents file hold
\* different text-unit sets raises and leaves the engine not Ready.
C9_LoadFailsOnMismatch ==
    (/\ last.op = "load"
     /\ folder.faiss.present /\ folder.faiss.ok
     /\ folder.docs.present /\ folder.docs.ok
     /\ Range(folder.faiss.docs) # Range(folder.docs.docs))
    => (last.raised /\ ~Ready)

\* C10: an engine loaded, when fresh, from the bundle that a freshly built
\* engine saved answers every query exactly as the engine that saved it.
C10_RoundTrip ==
    (origin = "loaded" /\ saved.clean) =>
        \A query \in Queries : SearchOutput(Self, query) = SearchOutput(saved.engine, query)

\* a search answered through the fast path by an engine loaded from such a bundle
C10_Witness ==
    /\ origin = "loaded" /\ saved.clean
    /\ last.op = "search" /\ out.kind = "exact"
    /\ out = SearchOutput(saved.engine, last.arg)

\* C11: no step of a search call changes the engine (documents, both indexes,
\* the retriever, the re-ranker) or the bundle, and every call that ran to its
\* end on an engine nobody rebuilt, however its steps were interleaved with
\* those of other calls, holds the answer a search running alone gives for its
\* query; two such calls with one query hold identical answers.
C11_SearchReadsOnly ==
    /\ [][calls' # calls =>
            UNCHANGED <<documents, vector_store, bm25_retriever, faiss_retriever,
                        cross_encoder, folder>>]_vars
    /\ [](\A t \in Threads :
            calls[t].pc = "done" => calls[t].result = SearchOutput(Self, calls[t].query))
    /\ [](\A t, u \in Threads :
            (calls[t].pc = "done" /\ calls[u].pc = "done" /\ calls[t].query = calls[u].query)
            => calls[t].result = calls[u].result)

\* two calls with one query, both through the hybrid path, both at their end
C11_Witness ==
    /\ \A t \in Threads : calls[t].pc = "done" /\ calls[t].result.kind = "results"
    /\ calls[1].query = calls[2].query
    /\ Ready

\* The last search, when it went the hybrid way: the deduplicated union of the
\* lexical and semantic hits for its query, the candidates the re-ranker was
\* given, and the re-ranker's score of a text.
HybridAnswer == last.op = "search" /\ out.kind = "results"
HybridUnion == MergedHits(Self, last.arg)
Reranked == Take(HybridUnion, CANDIDATE_CAP)
ScoreOf(text) == CrossScore(cross_encoder, last.arg, text)
NonePasses ==
    \A i \in 1..Len(Reranked) : ScoreOf(Reranked[i].page_content) <= RERANK_THRESHOLD
Texts(docs) == {docs[i].page_content : i \in 1..Len(docs)}

C13_NonEmptyUnionNonEmptyResult ==
    (last.op = "search" /\ out.kind \in {"results", "noinfo"} /\ HybridUnion # <<>>) =>
        /\ out.kind = "results"
        /\ out.items # <<>>
        /\ Range(out.items) \subseteq Texts(HybridUnion)

\* a non-empty answer although the best candidate scores below the threshold
C13_Witness ==
    /\ HybridAnswer /\ NonePasses /\ out.items # <<>>
    /\ \A i \in 1..Len(Reranked) : ScoreOf(Reranked[i].page_content) < RERANK_THRESHOLD

\* C14: the answer of a hybrid search is the selection made from the scores of
\* every candidate of the deduplicated union.
C14_EveryCandidateReranked ==
    HybridAnswer =>
        /\ Len(Reranked) = Len(HybridUnion)
        /\ out.items = PageContents(Rerank(cross_encoder, last.arg, HybridUnion))

\* C15: when some candidate of the union scores strictly above the threshold,
\* the answer holds min(5, number of such candidates) texts, each the text of
\* a candidate scoring strictly above the threshold, in non-increasing score,
\* and no candidate left out scores higher than one that is in it.
C15_TopFiveAboveThreshold ==
    (HybridAnswer /\ \E text \in Texts(HybridUnion) : ScoreOf(text) > RERANK_THRESHOLD) =>
        /\ Len(out.items) =
               Min({5, Cardinality({i \in 1..Len(HybridUnion) :
                                       ScoreOf(HybridUnion[i].page_content) > RERANK_THRESHOLD})})
        /\ Range(out.items) \subseteq Texts(HybridUnion)
        /\ \A k \in 1..Len(out.items) : ScoreOf(out.items[k]) > RERANK_THRESHOLD
        /\ \A k \in 1..(Len(out.items) - 1) : ScoreOf(out.items[k]) >= ScoreOf(out.items[k + 1])
        /\ \A k \in 1..Len(out.items) :
               \A text \in Texts(HybridUnion) \ Range(out.items) :
                   ScoreOf(text) <= ScoreOf(out.items[k])

\* C16: in the answer of a hybrid search no record (row identifier) of the
\* collection has more than one entry.
C16_OneEntryPerRecord ==
    HybridAnswer =>
        \A i \in 1..Len(documents) :
            Cardinality({k \in 1..Len(out.items) :
                \E j \in 1..Len(documents) :
                    /\ documents[j].row_id = documents[i].row_id
                    /\ documents[j].page_content = out.items[k]}) <= 1

\* an answer of two or more entries, one of them the text of a document that
\* both the lexical and the semantic index returned
C16_Witness ==
    /\ HybridAnswer /\ Len(out.items) >= 2
    /\ \E k \in 1..Len(out.items) :
           /\ out.items[k] \in Texts(BM25Invoke(bm25_retriever.docs, last.arg))
           /\ out.items[k] \in Texts(FaissHits(Self, last.arg))

\* C17: a search that follows the construction of the engine, or a build or
\* load that raised, reports that the index is not initialized.
C17_SearchAfterFailureReportsNotReady ==
    [][(/\ last'.op = "search"
        /\ \/ last.op = "init"
           \/ last.op \in {"build", "load"} /\ last.raised)
       => out'.kind = "notready"]_vars

\* C18: a save on an engine that is not Ready raises and leaves the bundle on
\* disk as it was.
C18_NotReadySaveFails ==
    [][(last'.op = "save" /\ ~Ready) => (last'.raised /\ folder' = folder)]_vars

\* C19: after a build, the metadata code of every document is the integer of
\* the first run of digits of its record's registration code when the code has
\* a digit, and the sentinel when it has none.
C19_MetadataCodeIsExtractedInteger ==
    origin = "built" =>
        \A df \in Frames :
            documents = DocumentsOf[df] =>
                \A i \in 1..Len(df) :
                    documents[i].registration_no_digits =
                        IF HasDigit(df[i].Registration_No)
                        THEN FirstDigitsValue(df[i].Registration_No)
                        ELSE NoDigits

\* the rows of a DataFrame that have a contact name or a phone number
WithContact(df) ==
    {i \in 1..Len(df) : ~isna(df[i].Contact_Person) \/ ~isna(df[i].Phone_Number)}

\* C20 as claimed: a build makes one text unit for each record and one more
\* for each record with a contact name or phone.
C20_ContactUnitOfItsOwn ==
    origin = "built" =>
        \A df \in Frames :
            documents = DocumentsOf[df] =>
                Len(documents) = Len(df) + Cardinality(WithContact(df))

\* C20 as amended: a build makes exactly one text unit for each record, in row
\* order, and its text has the contact sentence if and only if the record's
\* contact name or phone is non-null.
C20_OneUnitWithContactSentence ==
    origin = "built" =>
        \A df \in Frames :
            documents = DocumentsOf[df] =>
                /\ Len(documents) = Len(df)
                /\ \A i \in 1..Len(df) :
                       /\ documents[i].row_id = i - 1
                       /\ documents[i].page_content.contact # <<>> <=> i \in WithContact(df)

\* a collection with a text without the contact sentence and a text whose
\* contact sentence names a phone but no person
C20_Witness ==
    /\ origin = "built"
    /\ \E i \in 1..Len(documents) : documents[i].page_content.contact = <<>>
    /\ \E i \in 1..Len(documents) :
           /\ documents[i].page_content.contact # <<>>
           /\ documents[i].page_content.contact[1] = DefaultContact

\* C21 as claimed: the normaliser does not raise; for a string with a digit it
\* returns ("GSA-" + n, n), n the value of the first run of digits, the display
\* without leading zeros; for a string without digits, the empty one included,
\* it returns the original string and no integer.
C21_NormalizerOriginalString ==
    last.op = "normalize" =>
        /\ ~last.raised
        /\ IF HasDigit(last.arg)
           THEN /\ returned.value.some
                /\ returned.value.digits = FirstDigitsValue(last.arg)
                /\ returned.value.norm = GSADash \o StrOfInt(FirstDigitsValue(last.arg))
                /\ returned.value.norm[5] = "0" => Len(returned.value.norm) = 5
           ELSE /\ ~returned.value.some
                /\ returned.value.norm = last.arg

\* C21 as amended: as claimed for a string with a digit; for a string without
\* digits the normaliser returns the string stripped of leading and trailing
\* whitespace and no integer, and for the empty string it returns (null, null).
C21_NormalizerStrippedString ==
    last.op = "normalize" =>
        /\ ~last.raised
        /\ IF HasDigit(last.arg)
           THEN /\ returned.value.some
                /\ returned.value.digits = FirstDigitsValue(last.arg)
                /\ returned.value.norm = GSADash \o StrOfInt(FirstDigitsValue(last.arg))
                /\ returned.value.norm[5] = "0" => Len(returned.value.norm) = 5
           ELSE /\ ~returned.value.some
                /\ returned.value.norm = IF last.arg = <<>> THEN NULL ELSE Strip(last.arg)

\* a code with a prefix, leading zeros and a second run of digits, normalised
\* to the value of its first run
C21_Witness ==
    /\ last.op = "normalize"
    /\ last.arg = <<"G", ".", "S", ".", "A", " ", "0", "1", "4", " ", "7">>
    /\ returned.value.norm = <<"G", "S", "A", "-", "1", "4">>
    /\ returned.value.digits = 14

\* the placeholder tokens of the field cleaning, in lower case
Placeholders == {<<"n", "o", "t", " ", "a", "v", "a", "i", "l", "a", "b", "l", "e">>,
                 <<"u", "n", "k", "n", "o", "w", "n">>, <<"n", "a", "n">>, <<>>}

\* C22: the cleaning of a text cell gives null when the cell, trimmed and in
\* lower case, is a placeholder token or empty, and the trimmed, title-cased
\* text otherwise; the result is never a placeholder token or the empty string.
C22_CleaningMapsPlaceholdersToNull ==
    (last.op = "clean" /\ last.arg # NULL) =>
        /\ returned.value =
               IF Lower(Strip(last.arg)) \in Placeholders THEN NULL
               ELSE Title(Strip(last.arg))
        /\ returned.value # NULL => Lower(returned.value) \notin Placeholders

\* C23: an engine that passes the readiness check has its semantic retriever
\* set, and a search that went the hybrid way queried both the lexical and the
\* semantic retriever.
C23_HybridQueriesBothIndexes ==
    /\ Ready => faiss_retriever.set
    /\ (last.op = "search" /\ out.kind \in {"results", "noinfo"}) => (out.lex /\ out.sem)

\* a hybrid answer from an engine whose last build or load did not succeed
C23_Witness ==
    /\ last.op = "search" /\ out.kind = "results" /\ out.sem
    /\ origin = "other"

\* the lexical hits followed by the semantic hits of the last search
ConcatenatedHits ==
    BM25Invoke(bm25_retriever.docs, last.arg) \o FaissHits(Self, last.arg)
FirstAt(hits, text) == Min({i \in 1..Len(hits) : hits[i].page_content = text})

\* C24: the candidates given to the re-ranker have pairwise different texts,
\* hold every text that the lexical or the semantic index returned, and stand
\* in the order of their first occurrence in the concatenation of the lexical
\* and the semantic hits.
C24_CandidatesAreDedupedUnion ==
    HybridAnswer =>
        /\ \A i, j \in 1..Len(Reranked) :
               i # j => Reranked[i].page_content # Reranked[j].page_content
        /\ Texts(Reranked) = Texts(ConcatenatedHits)
        /\ \A i, j \in 1..Len(Reranked) :
               i < j => FirstAt(ConcatenatedHits, Reranked[i].page_content)
                        < FirstAt(ConcatenatedHits, Reranked[j].page_content)

\* C25: a search whose query has an identifier match for a code that no
\* document carries answers with the result blocks of the hybrid path for that
\* query, having queried the indexes and the re-ranker.
C25_UnknownCodeGoesHybrid ==
    (/\ last.op = "search" /\ Ready
     /\ TargetInts[last.arg] # NoKey
     /\ CodePositions(TargetInts[last.arg]) = {})
    => /\ out.kind = IF HybridUnion = <<>> THEN "noinfo" ELSE "results"
       /\ out.lex /\ out.sem
       /\ HybridUnion # <<>> =>
              /\ out.rerank
              /\ out.items = PageContents(Rerank(cross_encoder, last.arg, Reranked))

\* a search for "GSA-431" answered from the hybrid path
C25_Witness ==
    /\ last.op = "search" /\ out.kind = "results" /\ out.key = 431
    /\ CodePositions(431) = {} /\ documents # <<>>

\* C28: for a query with a digit anywhere, the fast-path key is the value of
\* the query's first run of digits; when a document carries that code the
\* answer is the exact-match answer and neither index nor the re-ranker is
\* called.
C28_FirstDigitRunIsKey ==
    (last.op = "search" /\ Ready /\ HasDigit(last.arg)) =>
        /\ out.key = FirstDigitsValue(last.arg)
        /\ CodePositions(out.key) # {} =>
               /\ out.kind = "exact" /\ out.items # <<>>
               /\ ~out.lex /\ ~out.sem /\ ~out.rerank

\* a sentence with the number 14 in it, answered with the records of code 14
C28_Witness ==
    /\ last.op = "search"
    /\ last.arg = <<"i", "s", " ", "1", "4", " ", "i", "n", " ", "s", "i", "r", "s", "a">>
    /\ out.kind = "exact" /\ out.key = 14

\* C26: when load_global_index returns a DataFrame and an engine, the engine's
\* documents and both of its indexes are those of a build from that DataFrame.
C26_LoadedIndexMatchesData ==
    (last.op = "load_global" /\ returned.value.some) =>
        /\ returned.value.engine.documents = DocumentsOf[returned.value.df]
        /\ returned.value.engine.bm25_retriever.docs = DocumentsOf[returned.value.df]
        /\ returned.value.engine.faiss_retriever.docs = DocumentsOf[returned.value.df]

\* C27: load_global_index returns (None, None) or an engine that passes the
\* readiness check of search, and it returns (None, None) whenever a file of
\* the index directory is missing or unreadable.
C27_LoadGlobalReadyOrNone ==
    last.op = "load_global" =>
        /\ returned.value.some => IsReady(returned.value.engine)
        /\ (\/ ~folder.faiss.present \/ ~folder.faiss.ok
            \/ ~folder.docs.present \/ ~folder.docs.ok) => ~returned.value.some

\* C29: initialize_system on a file from which rows were extracted reports
\* success and has set the session's DataFrame and agent manager.
C29_InitializeReportsSuccess ==
    (last.op = "initialize" /\ ParsedPdf[last.arg] # <<>>) =>
        /\ returned.value.success
        /\ session.df # NULL
        /\ session.agent_manager

\* C30: a process_upload of a file without extractable rows raises, and leaves
\* the metadata registry and the parquet and PDF files as they were.
C30_FailedUploadChangesNothing ==
    [][(last'.op = "upload" /\ ParsedPdf[last'.arg] = <<>>)
       => (last'.raised /\ artifacts' = artifacts)]_vars

\* a failed upload into a store that holds a report
C30_Witness ==
    /\ last.op = "upload" /\ last.raised /\ last.arg = "e"
    /\ artifacts.metadata # <<>>
    /\ "e" \notin artifacts.parquet \cup artifacts.pdf

====
